---- MODULE Spec2Model ----
(***************************************************************************)
(* express-plus: decorators that record route, parameter, controller and   *)
(* middleware metadata on classes, and the runtime that registers the      *)
(* recorded routes on an Express application and dispatches requests.      *)
(*                                                                         *)
(* Strings are sequences of one-character strings, so that prefixing,      *)
(* splitting, joining and concatenation are computed, not assumed.         *)
(***************************************************************************)
EXTENDS Integers, Sequences, FiniteSets, TLC

VARIABLES
    methods,    \* class -> the method names its prototype has (the class body)
    ctrl,       \* class -> controller metadata, or NoMeta      (CONTROLLER_KEY)
    routes,     \* class -> sequence of route metadata          (ROUTES_KEY)
    params,     \* class -> method key -> sequence of parameter metadata (PARAMS_KEY_<key>)
    mw,         \* class -> [classMiddlewares, methodMiddlewares]  (MIDDLEWARE_KEY)
    app,        \* what was registered on the Express application, in order
    stack,      \* the activation records of registerController, top first
    pending,    \* controllers the constructor of ExpressPlus has still to register
    pc,         \* "load": classes are being defined; "register": the constructor of
                \* ExpressPlus runs; "listen": the application is built
    call,       \* the last call a generated handler made to a controller method
    last,       \* the last decorator applied, with the arguments it was given
    env,        \* process.env.NODE_ENV
    isDev,      \* the isDev field of the ExpressPlus instance
    res,        \* the calls made on the response of the request being served
    nextCalls,  \* the calls made to next while the request is served
    superclass, \* class -> the class it extends, or NoClass
    container   \* class -> the number of instances of it the container constructed

vars == <<methods, ctrl, routes, params, mw, app, stack, pending, pc, call, last,
          env, isDev, res, nextCalls, superclass, container>>

-----------------------------------------------------------------------------
(* Bounds of the model *)

MaxPathLen == 2     \* longest path argument given to a decorator
MaxRoutes  == 2     \* most routes declared on one class
MaxParams  == 3     \* most parameter decorators applied to one method
MaxSegs    == 2     \* most segments of a dotted resource name

-----------------------------------------------------------------------------
(* Strings *)

Str(alphabet, n) == UNION {[1..k -> alphabet] : k \in 0..n}

\* String.prototype.startsWith('/')
StartsWithSlash(s) == Len(s) > 0 /\ s[1] = "/"

\* an argument that was not given
Undefined == <<"undefined">>

\* a string is truthy when it is given and not empty
Truthy(s) == s # Undefined /\ s # <<>>

RECURSIVE Concat(_)
Concat(ss) == IF ss = <<>> THEN <<>> ELSE Head(ss) \o Concat(Tail(ss))

Last(s) == s[Len(s)]

-----------------------------------------------------------------------------
(* The classes of the program *)

Classes == {"A", "B", "C"}
Keys    == {"m1", "m2"}
\* symbols used as method keys, each with its description
SymbolDescription == [s \in {"symbol 1", "symbol 2"} |-> "m1"]
Symbols == DOMAIN SymbolDescription
\* the method keys: strings and symbols
PropertyKeys == Keys \cup Symbols \cup {"Symbol(m1)"}
\* a decorator applied to a class or to a constructor parameter is given no
\* property key
NoKey   == ""
NoMeta  == [none |-> TRUE]
NoCall  == [none |-> TRUE]
NoLast  == [op |-> "none"]
\* no class: what a class that extends nothing has as its superclass
NoClass == ""
NoSuperclass == [c \in Classes |-> NoClass]
\* a response on which nothing was called yet
NoResponse == [status |-> <<>>, json |-> <<>>]

-----------------------------------------------------------------------------
(* metadata.ts *)

\* the classes whose prototypes a property lookup on the prototype of c goes
\* through: c, then its superclasses, nearest first
RECURSIVE PrototypeChain(_)
PrototypeChain(c) ==
    IF superclass[c] = NoClass THEN <<c>> ELSE <<c>> \o PrototypeChain(superclass[c])

\* the class on whose prototype the lookup from c finds the property, given
\* the classes whose prototypes have it as their own; NoClass when none has
Holder(c, owners) ==
    LET chain == PrototypeChain(c)
        found == {n \in DOMAIN chain : chain[n] \in owners}
    IN  IF found = {} THEN NoClass
        ELSE chain[CHOOSE n \in found : \A m \in found : n <= m]

\* the class a write through a looked-up property of c lands on
HolderOr(c, owners) == IF Holder(c, owners) = NoClass THEN c ELSE Holder(c, owners)

\* String(propertyKey): a string is itself, a symbol is Symbol(description),
\* undefined is "undefined"
String(propertyKey) ==
    IF propertyKey \in DOMAIN SymbolDescription
    THEN "Symbol(" \o SymbolDescription[propertyKey] \o ")"
    ELSE IF propertyKey = NoKey THEN "undefined"
    ELSE propertyKey

\* the names under which parameter metadata can be stored on a prototype
StorageKeys == {String(k) : k \in PropertyKeys \cup {NoKey}}

\* (target.prototype || target)[CONTROLLER_KEY]
getControllerMetadata(c) ==
    LET holder == Holder(c, {d \in Classes : ctrl[d] # NoMeta})
    IN  IF holder = NoClass THEN NoMeta ELSE ctrl[holder]

\* every class wrongly given the routes of one table entry
getRouteMetadataShared(c) == routes["A"]

\* (target.prototype || target)[ROUTES_KEY] || []
getRouteMetadata(c) ==
    LET holder == Holder(c, {d \in Classes : routes[d] # <<>>})
    IN  IF holder = NoClass THEN <<>> ELSE routes[holder]

\* the classes whose prototype has its own list under the storage key
ParamOwners(key) == {d \in Classes : params[d][key] # <<>>}

\* (target.prototype || target)[PARAMS_KEY + "_" + String(propertyKey)] || []
getParameterMetadata(c, propertyKey) ==
    LET key    == String(propertyKey)
        holder == Holder(c, ParamOwners(key))
    IN  IF holder = NoClass THEN <<>> ELSE params[holder][key]

\* the route wrongly put in front
addRouteMetadataUnshift(c, route) == [routes EXCEPT ![c] = <<route>> \o @]

\* if (!proto[ROUTES_KEY]) proto[ROUTES_KEY] = []; proto[ROUTES_KEY].push(route)
addRouteMetadata(c, route) ==
    [routes EXCEPT ![HolderOr(c, {d \in Classes : routes[d] # <<>>})] = Append(@, route)]

\* if (!storage[key]) storage[key] = []; storage[key].push(param)
addParameterMetadata(c, propertyKey, param) ==
    LET key == String(propertyKey)
    IN  [params EXCEPT ![HolderOr(c, ParamOwners(key))][key] = Append(@, param)]

\* (target.prototype || target)[CONTROLLER_KEY] = metadata
setControllerMetadata(c, metadata) == [ctrl EXCEPT ![c] = metadata]

EmptyMiddlewareMetadata == [classMiddlewares |-> <<>>, methodMiddlewares |-> <<>>]

\* the classes whose prototype has its own middleware metadata in table m
MiddlewareOwners(m) == {d \in Classes : m[d] # NoMeta}

\* the middleware table of every class after getMiddlewareMetadata(c), which
\* creates the entry of c when the lookup finds none (m is the table before
\* the call)
getMiddlewareMetadata(m, c) ==
    IF Holder(c, MiddlewareOwners(m)) = NoClass
    THEN [m EXCEPT ![c] = EmptyMiddlewareMetadata]
    ELSE m

\* the class whose metadata getMiddlewareMetadata(c) returns
MiddlewareHolder(m, c) == HolderOr(c, MiddlewareOwners(m))

\* metadata.classMiddlewares.push(middleware)
addClassMiddleware(m, c, middleware) ==
    [getMiddlewareMetadata(m, c) EXCEPT
        ![MiddlewareHolder(m, c)].classMiddlewares = Append(@, middleware)]

\* Map.get(key) || []
MapGet(map, key) == IF key \in DOMAIN map THEN map[key] ELSE <<>>

\* the middleware of a method wrongly added to the class-level list too
addMethodMiddlewareLeaky(m, c, key, middleware) ==
    [getMiddlewareMetadata(m, c) EXCEPT
        ![MiddlewareHolder(m, c)].classMiddlewares = Append(@, middleware),
        ![MiddlewareHolder(m, c)].methodMiddlewares =
            (key :> Append(MapGet(@, key), middleware)) @@ @]

\* methodMiddlewares.get(key).push(middleware), after set(key, []) when missing
addMethodMiddleware(m, c, key, middleware) ==
    [getMiddlewareMetadata(m, c) EXCEPT ![MiddlewareHolder(m, c)].methodMiddlewares =
        (key :> Append(MapGet(@, key), middleware)) @@ @]

RECURSIVE addClassMiddlewares(_, _, _)
addClassMiddlewares(m, c, list) ==
    IF list = <<>> THEN m
    ELSE addClassMiddlewares(addClassMiddleware(m, c, Head(list)), c, Tail(list))

RECURSIVE addMethodMiddlewares(_, _, _, _)
addMethodMiddlewares(m, c, key, list) ==
    IF list = <<>> THEN m
    ELSE addMethodMiddlewares(addMethodMiddleware(m, c, key, Head(list)), c, key, Tail(list))

\* the method's middlewares wrongly come first
getMethodMiddlewaresMethodFirst(m, c, key) ==
    LET metadata == getMiddlewareMetadata(m, c)[MiddlewareHolder(m, c)]
    IN  MapGet(metadata.methodMiddlewares, key) \o metadata.classMiddlewares

\* the middlewares of every method of the class wrongly follow
getMethodMiddlewaresEveryMethod(m, c, key) ==
    LET metadata == getMiddlewareMetadata(m, c)[MiddlewareHolder(m, c)]
        others   == IF key = "m1" THEN "m2" ELSE "m1"
    IN  metadata.classMiddlewares \o MapGet(metadata.methodMiddlewares, key)
            \o MapGet(metadata.methodMiddlewares, others)

\* [...metadata.classMiddlewares, ...methodMiddlewares]
getMethodMiddlewares(m, c, key) ==
    LET metadata == getMiddlewareMetadata(m, c)[MiddlewareHolder(m, c)]
    IN  metadata.classMiddlewares \o MapGet(metadata.methodMiddlewares, key)

-----------------------------------------------------------------------------
(* decorators/http-methods.ts *)

\* an empty path wrongly gets a slash too
normalizedPathAlways(path) ==
    IF ~StartsWithSlash(path) THEN <<"/">> \o path ELSE path

\* the path is stored as given
normalizedPathNever(path) == path

\* path && !path.startsWith('/') ? `/${path}` : path
normalizedPath(path) ==
    IF Truthy(path) /\ ~StartsWithSlash(path) THEN <<"/">> \o path ELSE path

\* function (path: string = '')
defaultPath(arg) == IF arg = Undefined THEN <<>> ELSE arg

PathArgs == Str({"/", "a"}, MaxPathLen) \cup {Undefined}

createRouteDecorator(method, c, key, arg) ==
    /\ pc = "load"
    /\ Len(routes[c]) < MaxRoutes
    /\ routes' = addRouteMetadata(c,
           [method |-> method, path |-> normalizedPath(defaultPath(arg)),
            propertyKey |-> key])
    /\ last' = [op |-> "route", cls |-> c, key |-> key, method |-> method, arg |-> arg]
    /\ UNCHANGED <<methods, ctrl, params, mw, app, stack, pending, pc, call, env, isDev, res, nextCalls,
                   superclass, container>>

Get(c, key, arg)    == createRouteDecorator("get", c, key, arg)
Post(c, key, arg)   == createRouteDecorator("post", c, key, arg)
Put(c, key, arg)    == createRouteDecorator("put", c, key, arg)
Delete(c, key, arg) == createRouteDecorator("delete", c, key, arg)
Patch(c, key, arg)  == createRouteDecorator("patch", c, key, arg)
All(c, key, arg)    == createRouteDecorator("all", c, key, arg)

-----------------------------------------------------------------------------
(* decorators/parameters.ts *)

\* a parameter decorator without a name (@Body(), @Req(), @Res())
NoName == ""

\* the check of the property key wrongly left out
createParameterDecoratorNoThrow(type, name, c, key, index) ==
    /\ pc = "load"
    /\ Len(getParameterMetadata(c, key)) < MaxParams
    /\ params' = addParameterMetadata(c, key, [type |-> type, name |-> name, index |-> index])
    /\ last' = [op |-> "parameter", cls |-> c, key |-> key, threw |-> FALSE]
    /\ UNCHANGED <<methods, ctrl, routes, mw, app, stack, pending, pc, call, env, isDev, res,
                   nextCalls, superclass, container>>

\* createParameterDecorator(type, name)(target, propertyKey, parameterIndex);
\* without a property key it throws and stores nothing
createParameterDecorator(type, name, c, key, index) ==
    /\ pc = "load"
    /\ IF key = NoKey
       THEN /\ last' = [op |-> "parameter", cls |-> c, key |-> key, threw |-> TRUE]
            /\ UNCHANGED params
       ELSE /\ Len(getParameterMetadata(c, key)) < MaxParams
            /\ params' = addParameterMetadata(c, key,
                   [type |-> type, name |-> name, index |-> index])
            /\ last' = [op |-> "parameter", cls |-> c, key |-> key, threw |-> FALSE]
    /\ UNCHANGED <<methods, ctrl, routes, mw, app, stack, pending, pc, call, env, isDev, res, nextCalls,
                   superclass, container>>

Param(name, c, key, index)   == createParameterDecorator("param", name, c, key, index)
Query(name, c, key, index)   == createParameterDecorator("query", name, c, key, index)
Body(name, c, key, index)    == createParameterDecorator("body", name, c, key, index)
Headers(name, c, key, index) == createParameterDecorator("headers", name, c, key, index)
Req(c, key, index)           == createParameterDecorator("req", NoName, c, key, index)
Res(c, key, index)           == createParameterDecorator("res", NoName, c, key, index)

\* a decorator of the application that stores a kind of its own with
\* addParameterMetadata
CustomParam(c, key, index)   == createParameterDecorator("custom", NoName, c, key, index)

-----------------------------------------------------------------------------
(* decorators/controller.ts *)

\* the prefix is stored as given
normalizedPrefixNever(path) == path

\* options.path && !options.path.startsWith("/") ? `/${options.path}` : options.path
normalizedPrefix(path) ==
    IF Truthy(path) /\ ~StartsWithSlash(path) THEN <<"/">> \o path ELSE path

\* typeof prefixOrOptions === "string" ? { path, controllers: [] } : prefixOrOptions,
\* with prefixOrOptions = "" when no argument is given; an options object may
\* leave controllers and middlewares out
ControllerOptions(arg) ==
    IF arg.form = "none" THEN [path |-> <<>>, controllers |-> <<>>]
    ELSE IF arg.form = "string" THEN [path |-> arg.path, controllers |-> <<>>]
    ELSE arg.options

\* options[name] || []
OrEmpty(options, name) == IF name \in DOMAIN options THEN options[name] ELSE <<>>

\* @Controller(arg) on class c; a class carries the decorator once
Controller(c, arg) ==
    /\ pc = "load"
    /\ ctrl[c] = NoMeta
    /\ LET options == ControllerOptions(arg) IN
        /\ ctrl' = setControllerMetadata(c,
               [prefix |-> normalizedPrefix(options.path),
                controllers |-> OrEmpty(options, "controllers")])
        /\ mw' = addClassMiddlewares(mw, c, OrEmpty(options, "middlewares"))
    /\ last' = [op |-> "controller", cls |-> c, arg |-> arg]
    /\ UNCHANGED <<methods, routes, params, app, stack, pending, pc, call, env, isDev, res, nextCalls,
                   superclass, container>>

-----------------------------------------------------------------------------
(* decorators/resource.ts *)

\* String.prototype.split(".")
RECURSIVE Split(_)
Split(s) ==
    IF \A n \in DOMAIN s : s[n] # "."
    THEN <<s>>
    ELSE LET i == CHOOSE n \in DOMAIN s : s[n] = "." /\ \A m \in 1..(n - 1) : s[m] # "."
         IN  <<SubSeq(s, 1, i - 1)>> \o Split(SubSeq(s, i + 1, Len(s)))

\* Array.prototype.join("/")
RECURSIVE Join(_)
Join(list) ==
    IF list = <<>> THEN <<>>
    ELSE IF Len(list) = 1 THEN list[1]
    ELSE list[1] \o <<"/">> \o Join(Tail(list))

\* pluralize.singular(segment), for the words of the model: a final "s" is dropped
singular(word) ==
    IF Len(word) > 1 /\ Last(word) = "s" THEN SubSeq(word, 1, Len(word) - 1) ELSE word

\* the custom parameter names wrongly ignored
parameterNameDefault(options, segment) == singular(segment) \o <<"I", "d">>

\* options.parameters?.[segment] || pluralize.singular(segment) + "Id"
parameterName(options, segment) ==
    IF /\ "parameters" \in DOMAIN options
       /\ segment \in DOMAIN options.parameters
       /\ options.parameters[segment] # <<>>
    THEN options.parameters[segment]
    ELSE singular(segment) \o <<"I", "d">>

\* the placeholder wrongly pushed before its segment
createSegmentsSwapped(options) ==
    LET segs == Split(options.path)
    IN  Concat([n \in 1..Len(segs) |->
                   <<<<":">> \o parameterName(options, segs[n]), segs[n]>>])

\* options.path.split(".").reduce(... acc.push(segment, param) ...)
createSegments(options) ==
    LET segs == Split(options.path)
    IN  Concat([n \in 1..Len(segs) |->
                   <<segs[n], <<":">> \o parameterName(options, segs[n])>>])

\* update wrongly on the collection path
resourceActionsWrong ==
    << [name |-> "index",  placeholder |-> FALSE, method |-> "get"],
       [name |-> "show",   placeholder |-> TRUE,  method |-> "get"],
       [name |-> "create", placeholder |-> FALSE, method |-> "post"],
       [name |-> "update", placeholder |-> FALSE, method |-> "put"],
       [name |-> "patch",  placeholder |-> TRUE,  method |-> "patch"],
       [name |-> "delete", placeholder |-> TRUE,  method |-> "delete"] >>

resourceActions ==
    << [name |-> "index",  placeholder |-> FALSE, method |-> "get"],
       [name |-> "show",   placeholder |-> TRUE,  method |-> "get"],
       [name |-> "create", placeholder |-> FALSE, method |-> "post"],
       [name |-> "update", placeholder |-> TRUE,  method |-> "put"],
       [name |-> "patch",  placeholder |-> TRUE,  method |-> "patch"],
       [name |-> "delete", placeholder |-> TRUE,  method |-> "delete"] >>

\* every action is wrongly taken to be implemented
hasMethodAlways(c, name) == TRUE

\* target.prototype[name]
hasMethod(c, name) == name \in methods[c]

\* typeof pathOrOptions === "string" ? { path: pathOrOptions, controllers: [] }
\*                                   : pathOrOptions
ResourceOptions(arg) ==
    IF arg.form = "string" THEN [path |-> arg.path, controllers |-> <<>>]
    ELSE arg.options

\* segments.slice(0, placeholder ? segments.length : -1).join("/"), after a '/'
resourcePath(segments, placeholder) ==
    <<"/">> \o Join(SubSeq(segments, 1,
                           IF placeholder THEN Len(segments) ELSE Len(segments) - 1))

\* the routes after resourceActions.forEach from action n on
RECURSIVE addResourceRoutes(_, _, _, _)
addResourceRoutes(rs, c, segments, n) ==
    IF n > Len(resourceActions) THEN rs
    ELSE LET a == resourceActions[n] IN
         addResourceRoutes(
             IF ~hasMethod(c, a.name) THEN rs
             ELSE Append(rs, [method |-> a.method,
                              path |-> resourcePath(segments, a.placeholder),
                              propertyKey |-> a.name]),
             c, segments, n + 1)

\* @Resource(arg) on class c; a class carries the decorator once
Resource(c, arg) ==
    /\ pc = "load"
    /\ ctrl[c] = NoMeta
    /\ LET options  == ResourceOptions(arg)
           segments == createSegments(options)
       IN  /\ ctrl' = setControllerMetadata(c,
                  [prefix |-> <<>>, controllers |-> OrEmpty(options, "controllers")])
           /\ routes' = [routes EXCEPT ![c] = addResourceRoutes(@, c, segments, 1)]
    /\ last' = [op |-> "resource", cls |-> c, arg |-> arg, before |-> Len(routes[c])]
    /\ UNCHANGED <<methods, params, mw, app, stack, pending, pc, call, env, isDev, res, nextCalls,
                   superclass, container>>

-----------------------------------------------------------------------------
(* decorators/middleware.ts *)

\* @UseMiddleware(...middlewares) on class c (key = NoKey) or on its method key
UseMiddleware(c, key, middlewares) ==
    /\ pc = "load"
    /\ mw' = IF key = NoKey
             THEN addClassMiddlewares(mw, c, middlewares)
             ELSE addMethodMiddlewares(mw, c, key, middlewares)
    /\ last' = [op |-> "middleware", cls |-> c, key |-> key, arg |-> middlewares]
    /\ UNCHANGED <<methods, ctrl, routes, params, app, stack, pending, pc, call, env, isDev, res, nextCalls,
                   superclass, container>>

-----------------------------------------------------------------------------
(* container/container.ts: the registry of singletons *)

\* an instance wrongly constructed at every call
ContainerGetFresh(registry, c) == [registry EXCEPT ![c] = @ + 1]

\* container.get(c): the instance registered for c; the first call constructs
\* and registers it
ContainerGet(registry, c) ==
    IF registry[c] = 0 THEN [registry EXCEPT ![c] = 1] ELSE registry

-----------------------------------------------------------------------------
(* runtime/router.ts and runtime/application.ts: registration *)

\* the request handler createHandler builds for method key of the instance of c
Handler(c, key) == [fn |-> "handler", cls |-> c, key |-> key]

\* the prefixes wrongly joined child first
fullPrefixReversed(parentPrefix, prefix) == prefix \o parentPrefix

\* parentPrefix + controllerMetadata.prefix
fullPrefix(parentPrefix, prefix) == parentPrefix \o prefix

\* `${fullPrefix}${route.path}`
fullPath(prefix, path) == prefix \o path

\* the stack after registerController(c, parentPrefix) is called: a class without
\* controller metadata returns at once; chain lists the classes from the root
\* of the nesting down to c
Enter(stk, c, parentPrefix, chain) ==
    IF getControllerMetadata(c) = NoMeta THEN stk
    ELSE <<[cls |-> c,
            prefix |-> fullPrefix(parentPrefix, getControllerMetadata(c).prefix),
            chain |-> Append(chain, c), i |-> 1, j |-> 1]>> \o stk

\* options[name] !== false: an option left out counts as well
NotFalse(options, name) == ~(name \in DOMAIN options /\ options[name] = FALSE)

\* new ExpressPlus({ controllers, json, urlencoded }): up to the loop over the
\* controllers
ExpressPlus(options) ==
    /\ pc = "load"
    /\ pc' = "register"
    /\ app' = (IF NotFalse(options, "json")
               THEN <<[kind |-> "use", fn |-> "json"]>> ELSE <<>>)
              \o (IF NotFalse(options, "urlencoded")
                  THEN <<[kind |-> "use", fn |-> "urlencoded"]>> ELSE <<>>)
    /\ isDev' = (env # "production")
    /\ pending' = options.controllers
    /\ last' = [op |-> "create", arg |-> options, env |-> env]
    /\ UNCHANGED <<methods, ctrl, routes, params, mw, stack, call, env, res, nextCalls,
                   superclass, container>>

\* for (const Controller of options.controllers): registerController(app, Controller)
RegisterNext ==
    /\ pc = "register" /\ stack = <<>> /\ pending # <<>>
    /\ stack' = Enter(stack, Head(pending), <<>>, <<>>)
    /\ pending' = Tail(pending)
    /\ UNCHANGED <<methods, ctrl, routes, params, mw, app, pc, call, last, env, isDev, res, nextCalls,
                   superclass, container>>

\* the controller wrongly constructed anew (new Controller()) at every visit
RegisterRouteNew ==
    /\ pc = "register" /\ stack # <<>>
    /\ LET f == Head(stack)
           rs == getRouteMetadata(f.cls)
       IN  /\ f.i <= Len(rs)
           /\ container' = IF f.i = 1 THEN [container EXCEPT ![f.cls] = @ + 1] ELSE container
           /\ LET route == rs[f.i]
                  middlewares == getMethodMiddlewares(mw, f.cls, route.propertyKey)
                  handlers == middlewares \o <<Handler(f.cls, route.propertyKey)>>
              IN  /\ app' = Append(app,
                         [kind |-> "route", method |-> route.method,
                          path |-> fullPath(f.prefix, route.path),
                          handlers |-> handlers,
                          cls |-> f.cls, chain |-> f.chain, index |-> f.i,
                          instance |-> container'[f.cls]])
                  /\ mw' = getMiddlewareMetadata(mw, f.cls)
           /\ stack' = <<[f EXCEPT !.i = @ + 1]>> \o Tail(stack)
    /\ UNCHANGED <<methods, ctrl, routes, params, pending, pc, call, last, env, isDev, res, nextCalls,
                   superclass>>

\* one turn of for (const route of routes): app[route.method](fullPath, ...handlers)
RegisterRoute ==
    /\ pc = "register" /\ stack # <<>>
    /\ LET f == Head(stack)
           rs == getRouteMetadata(f.cls)
       IN  /\ f.i <= Len(rs)
           /\ container' = IF f.i = 1 THEN ContainerGet(container, f.cls) ELSE container
           /\ LET route == rs[f.i]
                  middlewares == getMethodMiddlewares(mw, f.cls, route.propertyKey)
                  handlers == middlewares \o <<Handler(f.cls, route.propertyKey)>>
              IN  /\ app' = Append(app,
                         [kind |-> "route", method |-> route.method,
                          path |-> fullPath(f.prefix, route.path),
                          handlers |-> handlers,
                          cls |-> f.cls, chain |-> f.chain, index |-> f.i,
                          instance |-> container'[f.cls]])
                  /\ mw' = getMiddlewareMetadata(mw, f.cls)
           /\ stack' = <<[f EXCEPT !.i = @ + 1]>> \o Tail(stack)
    /\ UNCHANGED <<methods, ctrl, routes, params, pending, pc, call, last, env, isDev, res, nextCalls,
                   superclass>>

\* the nested controllers are wrongly visited without waiting for the routes
RegisterChildEarly ==
    /\ pc = "register" /\ stack # <<>>
    /\ LET f == Head(stack)
           children == getControllerMetadata(f.cls).controllers
       IN  /\ f.j <= Len(children)
           /\ stack' = Enter(<<[f EXCEPT !.j = @ + 1]>> \o Tail(stack),
                             children[f.j], f.prefix, f.chain)
    /\ UNCHANGED <<methods, ctrl, routes, params, mw, app, pending, pc, call, last, env, isDev, res, nextCalls,
                   superclass, container>>

\* one turn of for (const ChildController of controllerMetadata.controllers)
RegisterChild ==
    /\ pc = "register" /\ stack # <<>>
    /\ LET f == Head(stack)
           children == getControllerMetadata(f.cls).controllers
       IN  /\ f.i > Len(getRouteMetadata(f.cls))
           /\ f.j <= Len(children)
           /\ stack' = Enter(<<[f EXCEPT !.j = @ + 1]>> \o Tail(stack),
                             children[f.j], f.prefix, f.chain)
    /\ UNCHANGED <<methods, ctrl, routes, params, mw, app, pending, pc, call, last, env, isDev, res, nextCalls,
                   superclass, container>>

\* registerController returns
Return ==
    /\ pc = "register" /\ stack # <<>>
    /\ LET f == Head(stack) IN
           /\ f.i > Len(getRouteMetadata(f.cls))
           /\ f.j > Len(getControllerMetadata(f.cls).controllers)
    /\ stack' = Tail(stack)
    /\ UNCHANGED <<methods, ctrl, routes, params, mw, app, pending, pc, call, last, env, isDev, res, nextCalls,
                   superclass, container>>

\* the error handler wrongly put in front of what the app holds
UseErrorHandlerFirst ==
    /\ pc = "register" /\ stack = <<>> /\ pending = <<>>
    /\ app' = <<[kind |-> "use", fn |-> "errorHandler"]>> \o app
    /\ pc' = "listen"
    /\ UNCHANGED <<methods, ctrl, routes, params, mw, stack, pending, call, last, env, isDev, res, nextCalls,
                   superclass, container>>

\* this.app.use(errorHandler), after the loop over the controllers
UseErrorHandler ==
    /\ pc = "register" /\ stack = <<>> /\ pending = <<>>
    /\ app' = Append(app, [kind |-> "use", fn |-> "errorHandler"])
    /\ pc' = "listen"
    /\ UNCHANGED <<methods, ctrl, routes, params, mw, stack, pending, call, last, env, isDev, res, nextCalls,
                   superclass, container>>

Register == RegisterNext \/ RegisterRoute \/ RegisterChild \/ Return \/ UseErrorHandler

-----------------------------------------------------------------------------
(* errors/http-exceptions.ts *)

\* a constructor argument: left out, or given
NoArg == [given |-> FALSE]
Arg(value) == [given |-> TRUE, value |-> value]

\* a parameter with a default value, as in (message: string = 'Bad Request')
Default(arg, value) == IF arg.given THEN arg.value ELSE value

\* new Error(message): the built-in every exception extends
Error(message) ==
    [instanceOf |-> {"Error"}, name |-> "Error", message |-> message, stack |-> "stack"]

\* class HttpException extends Error
HttpException(status, message) ==
    [instanceOf |-> Error(message).instanceOf \cup {"HttpException"},
     name       |-> "HttpException",
     status     |-> status,
     message    |-> Error(message).message,
     stack      |-> Error(message).stack]

\* a subclass: super(status, message); this.name = name
Subclass(name, status, message) ==
    [HttpException(status, message) EXCEPT !.instanceOf = @ \cup {name}, !.name = name]

BadRequestException(message) ==
    Subclass("BadRequestException", 400, Default(message, "Bad Request"))

UnauthorizedException(message) ==
    Subclass("UnauthorizedException", 401, Default(message, "Unauthorized"))

ForbiddenException(message) ==
    Subclass("ForbiddenException", 403, Default(message, "Forbidden"))

NotFoundException(message) ==
    Subclass("NotFoundException", 404, Default(message, "Not Found"))

\* the status of another class
ConflictExceptionWrong(message) ==
    Subclass("ConflictException", 400, Default(message, "Conflict"))

ConflictException(message) ==
    Subclass("ConflictException", 409, Default(message, "Conflict"))

InternalServerErrorException(message) ==
    Subclass("InternalServerErrorException", 500, Default(message, "Internal Server Error"))

\* the six classes with a fixed status
Canned == {"BadRequestException", "UnauthorizedException", "ForbiddenException",
           "NotFoundException", "ConflictException", "InternalServerErrorException"}

\* new class(message), for the six classes
New(class, message) ==
    CASE class = "BadRequestException"          -> BadRequestException(message)
      [] class = "UnauthorizedException"        -> UnauthorizedException(message)
      [] class = "ForbiddenException"           -> ForbiddenException(message)
      [] class = "NotFoundException"            -> NotFoundException(message)
      [] class = "ConflictException"            -> ConflictException(message)
      [] class = "InternalServerErrorException" -> InternalServerErrorException(message)

-----------------------------------------------------------------------------
(* runtime/application.ts: the global error handler *)

\* err instanceof HttpException
IsHttpException(err) == "HttpException" \in err.instanceOf

\* err.stack, undefined when the thrown value has none
StackOf(err) == IF "stack" \in DOMAIN err THEN err.stack ELSE "undefined"

\* the stack wrongly sent in every mode
errorBodyAlwaysStack(status, message, err) ==
    [statusCode |-> status, message |-> message, stack |-> StackOf(err)]

\* { statusCode, message, ...(this.isDev && { stack: err.stack }) }
errorBody(status, message, err) ==
    IF isDev
    THEN [statusCode |-> status, message |-> message, stack |-> StackOf(err)]
    ELSE [statusCode |-> status, message |-> message]

\* res.status(status).json(body)
StatusJson(r, status, body) ==
    [r EXCEPT !.status = Append(@, status), !.json = Append(@, body)]

\* every error wrongly answered with 500
errorHandlerAlways500(err, r) ==
    LET message == IF "message" \in DOMAIN err /\ err.message # ""
                   THEN err.message ELSE "Internal Server Error"
    IN  StatusJson(r, 500, errorBody(500, message, err))

\* errorHandler(err, _req, res, _next): the response after it ran
errorHandler(err, r) ==
    IF IsHttpException(err)
    THEN StatusJson(r, err.status, errorBody(err.status, err.message, err))
    ELSE LET status  == IF "status" \in DOMAIN err /\ err.status # 0
                        THEN err.status ELSE 500
             message == IF "message" \in DOMAIN err /\ err.message # ""
                        THEN err.message ELSE "Internal Server Error"
         IN  StatusJson(r, status, errorBody(status, message, err))

\* Express hands the error passed to next to the error handler, the last
\* entry of the application
HandleError ==
    /\ pc = "listen"
    /\ nextCalls # <<>> /\ res.status = <<>>
    /\ Last(app).kind = "use" /\ Last(app).fn = "errorHandler"
    /\ res' = errorHandler(nextCalls[1], res)
    /\ UNCHANGED <<methods, ctrl, routes, params, mw, app, stack, pending, pc, call, last,
                   env, isDev, nextCalls,
                   superclass, container>>

-----------------------------------------------------------------------------
(* runtime/handler.ts: the request handler *)

\* a value a handler can pass to a controller method
Val(v) == [v |-> v]

Names == {"id", "q"}

\* the request the handlers are called with
TheRequest ==
    [params  |-> [n \in Names |-> Val(<<"params", n>>)],
     query   |-> [n \in Names |-> Val(<<"query", n>>)],
     body    |-> [defined |-> TRUE, self |-> Val(<<"body">>),
                  props |-> [n \in Names |-> Val(<<"body", n>>)]],
     headers |-> [n \in Names |-> Val(<<"headers", n>>)]]

\* a request without a parsed body, and with no query and no q header
BareRequest ==
    [params  |-> [n \in Names |-> Val(<<"params", n>>)],
     query   |-> [n \in {} |-> Val(<<>>)],
     body    |-> [defined |-> FALSE, self |-> Val(<<"undefined">>),
                  props |-> [n \in {} |-> Val(<<>>)]],
     headers |-> [n \in {"id"} |-> Val(<<"headers", n>>)]]

\* object[name], undefined when the object has no such property
Prop(object, name) == IF name \in DOMAIN object THEN object[name] ELSE Val(<<"undefined">>)

\* the list sorted by index with p put in: after every element whose index is
\* not greater, so that equal indices keep their order (the sort is stable)
RECURSIVE Insert(_, _)
Insert(sorted, p) ==
    IF sorted = <<>> THEN <<p>>
    ELSE IF Last(sorted).index <= p.index THEN Append(sorted, p)
    ELSE Append(Insert(SubSeq(sorted, 1, Len(sorted) - 1), p), Last(sorted))

RECURSIVE SortFrom(_, _)
SortFrom(sorted, list) ==
    IF list = <<>> THEN sorted ELSE SortFrom(Insert(sorted, Head(list)), Tail(list))

\* the parameters wrongly left in the order the decorators were applied
sortedParamsUnsorted(ps) == ps

\* [...params].sort((a, b) => a.index - b.index)
sortedParams(ps) == SortFrom(<<>>, ps)

\* the kinds param and query wrongly exchanged
resolveParameterSwapped(param, req) ==
    CASE param.type = "param"   -> Prop(req.query, param.name)
      [] param.type = "query"   -> Prop(req.params, param.name)
      [] param.type = "body"    -> IF param.name # NoName
                                   THEN Prop(req.body.props, param.name)
                                   ELSE req.body.self
      [] param.type = "headers" -> Prop(req.headers, param.name)
      [] param.type = "req"     -> Val(<<"req">>)
      [] param.type = "res"     -> Val(<<"res">>)
      [] OTHER                  -> Val(<<"undefined">>)

\* the switch over param.type
resolveParameter(param, req) ==
    CASE param.type = "param"   -> Prop(req.params, param.name)
      [] param.type = "query"   -> Prop(req.query, param.name)
      [] param.type = "body"    -> IF param.name # NoName
                                   THEN Prop(req.body.props, param.name)
                                   ELSE req.body.self
      [] param.type = "headers" -> Prop(req.headers, param.name)
      [] param.type = "req"     -> Val(<<"req">>)
      [] param.type = "res"     -> Val(<<"res">>)
      [] OTHER                  -> Val(<<"undefined">>)

\* sortedParams.map(...)
resolveParameters(ps, req) ==
    LET sorted == sortedParams(ps)
    IN  [n \in 1..Len(sorted) |-> resolveParameter(sorted[n], req)]

\* req.body[param.name] of a request without a body throws a TypeError
resolveThrows(param, req) ==
    param.type = "body" /\ param.name # NoName /\ ~req.body.defined

TypeError(message) ==
    [instanceOf |-> {"Error", "TypeError"}, name |-> "TypeError", message |-> message,
     stack |-> "stack"]

\* what the controller method does when it is called
Returns(value) == [kind |-> "return", value |-> value]
Resolves(value) == [kind |-> "resolve", value |-> value]
Throws(error) == [kind |-> "throw", error |-> error]
Rejects(error) == [kind |-> "reject", error |-> error]

\* await method.apply(...) gives a result
Fulfils(outcome) == outcome.kind \in {"return", "resolve"}

\* an undefined result wrongly sent too
HandleRequestAlwaysJson(n, req, outcome) ==
    /\ pc = "listen"
    /\ n \in DOMAIN app /\ app[n].kind = "route"
    /\ LET h  == Last(app[n].handlers)
           ps == getParameterMetadata(h.cls, h.key)
       IN  /\ call' = [cls |-> h.cls, key |-> h.key,
                       args |-> resolveParameters(ps, req), req |-> req,
                       invoked |-> TRUE, outcome |-> outcome]
           /\ res' = IF Fulfils(outcome)
                     THEN [NoResponse EXCEPT !.json = <<outcome.value>>]
                     ELSE NoResponse
           /\ nextCalls' = IF Fulfils(outcome) THEN <<>> ELSE <<outcome.error>>
    /\ UNCHANGED <<methods, ctrl, routes, params, mw, app, stack, pending, pc, last,
                   env, isDev,
                   superclass, container>>

\* the handler of registered entry n is called with request req and a fresh
\* response: it resolves the parameters of the method, calls the method with
\* them, sends a result that is not undefined with res.json and passes what is
\* thrown to next
HandleRequest(n, req, outcome) ==
    /\ pc = "listen"
    /\ n \in DOMAIN app /\ app[n].kind = "route"
    /\ LET h  == Last(app[n].handlers)
           ps == getParameterMetadata(h.cls, h.key)
       IN  IF \E k \in DOMAIN ps : resolveThrows(ps[k], req)
           THEN /\ call' = [cls |-> h.cls, key |-> h.key, args |-> <<>>, req |-> req,
                            invoked |-> FALSE, outcome |-> [kind |-> "none"]]
                /\ res' = NoResponse
                /\ nextCalls' = <<TypeError("Cannot read properties of undefined")>>
           ELSE /\ call' = [cls |-> h.cls, key |-> h.key,
                            args |-> resolveParameters(ps, req), req |-> req,
                            invoked |-> TRUE, outcome |-> outcome]
                /\ res' = IF Fulfils(outcome) /\ outcome.value # Val(<<"undefined">>)
                          THEN [NoResponse EXCEPT !.json = <<outcome.value>>]
                          ELSE NoResponse
                /\ nextCalls' = IF Fulfils(outcome) THEN <<>> ELSE <<outcome.error>>
    /\ UNCHANGED <<methods, ctrl, routes, params, mw, app, stack, pending, pc, last,
                   env, isDev,
                   superclass, container>>

-----------------------------------------------------------------------------
(* The state after the modules are loaded and before any decorator ran *)

InitMeta ==
    /\ ctrl = [c \in Classes |-> NoMeta]
    /\ routes = [c \in Classes |-> <<>>]
    /\ params = [c \in Classes |-> [k \in StorageKeys |-> <<>>]]
    /\ mw = [c \in Classes |-> NoMeta]
    /\ app = <<>>
    /\ stack = <<>>
    /\ pending = <<>>
    /\ pc = "load"
    /\ call = NoCall
    /\ last = NoLast
    /\ isDev = FALSE
    /\ res = NoResponse
    /\ nextCalls = <<>>
    /\ container = [c \in Classes |-> 0]

-----------------------------------------------------------------------------
(* SpecRoute: the HTTP-verb decorators applied to the methods of one class *)

InitRoute ==
    /\ InitMeta
    /\ env = "test"
    /\ superclass = NoSuperclass
    /\ methods = [c \in Classes |-> Keys]

NextRoute ==
    \E key \in {"m1"}, arg \in PathArgs :
        \/ Get("A", key, arg)
        \/ Post("A", key, arg)
        \/ Put("A", key, arg)
        \/ Delete("A", key, arg)
        \/ Patch("A", key, arg)
        \/ All("A", key, arg)

SpecRoute == InitRoute /\ [][NextRoute]_vars

\* the route the last HTTP-verb decorator stored
StoredRoute == Last(routes[last.cls])

\* C1 as stated: every path argument that does not begin with '/' is stored
\* with exactly one leading '/'.
C1_AsStated ==
    (last.op = "route" /\ last.arg # Undefined /\ ~StartsWithSlash(last.arg)) =>
        /\ StartsWithSlash(StoredRoute.path)
        /\ ~StartsWithSlash(Tail(StoredRoute.path))

\* C1 amended: every NON-EMPTY path argument that does not begin with '/' is
\* stored as '/' followed by the argument, so it begins with exactly one '/'.
C1_NonEmptyGetsOneSlash ==
    (last.op = "route" /\ Truthy(last.arg) /\ ~StartsWithSlash(last.arg)) =>
        /\ StoredRoute.path = <<"/">> \o last.arg
        /\ StartsWithSlash(StoredRoute.path)
        /\ ~StartsWithSlash(Tail(StoredRoute.path))

C1_Witness ==
    /\ last.op = "route"
    /\ last.arg = <<"a", "/">>
    /\ StoredRoute.path = <<"/", "a", "/">>

\* C2: no path or the empty path is stored as "" and a path that begins with
\* '/' (also "/" alone) is stored unchanged, character for character.
C2_EmptyAndSlashedUnchanged ==
    last.op = "route" =>
        /\ (last.arg = Undefined \/ last.arg = <<>>) => StoredRoute.path = <<>>
        /\ (last.arg # Undefined /\ StartsWithSlash(last.arg)) => StoredRoute.path = last.arg

C2_Witness ==
    /\ Len(routes["A"]) = 2
    /\ last.op = "route"
    /\ last.arg = <<"/">>
    /\ routes["A"][1].path = <<>>
    /\ routes["A"][2].path = <<"/">>

-----------------------------------------------------------------------------
(* Spec: controllers nested in one another, declared with various prefixes,   *)
(* and registered on the application                                         *)

\* a class names as nested controllers classes that are defined before it
Earlier(c) == CASE c = "A" -> {"B", "C"} [] c = "B" -> {"C"} [] OTHER -> {}

\* the lists of distinct members of set S
Lists(S) == {l \in UNION {[1..k -> S] : k \in 0..Cardinality(S)} :
                \A x, y \in DOMAIN l : x # y => l[x] # l[y]}

PrefixArgs == {<<>>, <<"a">>, <<"a", "/">>}
RouteArgs  == {Undefined, <<"a">>}

InitNest ==
    /\ InitMeta
    /\ env = "test"
    /\ superclass = NoSuperclass
    /\ methods = [c \in Classes |-> Keys]

Decorate ==
    \/ \E c \in Classes, p \in PrefixArgs : \E l \in Lists(Earlier(c)) :
          Controller(c, [form |-> "options",
                         options |-> [path |-> p, controllers |-> l]])
    \/ \E c \in Classes, arg \in RouteArgs :
          routes[c] = <<>> /\ Get(c, "m1", arg)

Create ==
    \E l \in {<<"A">>, <<"B", "A">>} :
        ExpressPlus([controllers |-> l, json |-> TRUE, urlencoded |-> TRUE])

Next == Decorate \/ Create \/ Register

Spec == InitNest /\ [][Next]_vars

RouteEntries == {n \in DOMAIN app : app[n].kind = "route"}

\* the pieces of a registered path: the prefixes of the controllers from the
\* root of the nesting to the leaf, then the path of the route
Pieces(e) ==
    [k \in 1..Len(e.chain) |-> ctrl[e.chain[k]].prefix]
        \o <<routes[e.cls][e.index].path>>

RECURSIVE LeadingSlashes(_)
LeadingSlashes(s) == IF StartsWithSlash(s) THEN 1 + LeadingSlashes(Tail(s)) ELSE 0

RECURSIVE TrailingSlashes(_)
TrailingSlashes(s) ==
    IF Len(s) > 0 /\ Last(s) = "/" THEN 1 + TrailingSlashes(SubSeq(s, 1, Len(s) - 1))
    ELSE 0

\* the text before piece k
Before(ps, k) == Concat(SubSeq(ps, 1, k - 1))

\* the number of '/' where piece k (not empty) meets the text before it
SlashesAt(ps, k) == TrailingSlashes(Before(ps, k)) + LeadingSlashes(ps[k])

InOrder(e) == e.path = Concat(Pieces(e))

\* C3 as stated: the registered path is the pieces in nesting order and every
\* piece meets the text before it with exactly one '/', whatever the pieces are.
C3_AsStated ==
    \A n \in RouteEntries :
        LET ps == Pieces(app[n]) IN
        /\ InOrder(app[n])
        /\ \A k \in DOMAIN ps : ps[k] # <<>> => SlashesAt(ps, k) = 1

\* C3 amended: the registered path is the plain concatenation of the prefixes
\* from root to leaf and then the route path; every piece that is not empty
\* begins with '/', so no separator is missing; and the separator is exactly
\* one '/' wherever the text before the piece does not end in '/' and the
\* piece does not begin with "//" (otherwise the slashes are kept, doubled).
C3_ConcatenatedInOrder ==
    \A n \in RouteEntries :
        LET ps == Pieces(app[n]) IN
        /\ InOrder(app[n])
        /\ \A k \in DOMAIN ps : ps[k] # <<>> =>
              /\ SlashesAt(ps, k) >= 1
              /\ (TrailingSlashes(Before(ps, k)) = 0 /\ LeadingSlashes(ps[k]) = 1)
                    => SlashesAt(ps, k) = 1
              /\ SubSeq(app[n].path, Len(Before(ps, k)) + 1,
                        Len(Before(ps, k)) + Len(ps[k])) = ps[k]

C3_Witness ==
    \E n \in RouteEntries :
        /\ app[n].chain = <<"A", "B", "C">>
        /\ ctrl["A"].prefix = <<"/", "a", "/">>
        /\ ctrl["B"].prefix = <<>>
        /\ ctrl["C"].prefix = <<"/", "a">>
        /\ app[n].path = <<"/", "a", "/", "/", "a", "/", "a">>

-----------------------------------------------------------------------------
(* SpecOrder: controllers with several routes each, nested and registered     *)

\* class c has a route for method key already
Routed(c, key) == \E n \in DOMAIN routes[c] : routes[c][n].propertyKey = key

DecorateOrder ==
    \/ \E c \in Classes : \E l \in Lists(Earlier(c)) :
          Controller(c, [form |-> "options",
                         options |-> [path |-> <<"a">>, controllers |-> l]])
    \/ \E c \in Classes : ~Routed(c, "m1") /\ Get(c, "m1", Undefined)
    \/ \E c \in Classes : ~Routed(c, "m2") /\ Post(c, "m2", <<"a">>)

NextOrder == DecorateOrder \/ Create \/ Register

SpecOrder == InitNest /\ [][NextOrder]_vars

\* which route was registered, and for which visit of which controller
Visit(e) == [cls |-> e.cls, chain |-> e.chain, index |-> e.index,
             key |-> routes[e.cls][e.index].propertyKey]

Registered == [n \in 1..Cardinality(RouteEntries) |->
                 Visit(app[CHOOSE m \in RouteEntries :
                             Cardinality({x \in RouteEntries : x <= m}) = n])]

\* depth-first pre-order from controller c reached through chain: the routes of
\* c in metadata order, then the subtree of each nested controller in list order
RECURSIVE PreOrder(_, _)
RECURSIVE PreOrderAll(_, _)
PreOrder(c, chain) ==
    IF ctrl[c] = NoMeta THEN <<>>
    ELSE [n \in 1..Len(routes[c]) |->
             [cls |-> c, chain |-> Append(chain, c), index |-> n,
              key |-> routes[c][n].propertyKey]]
         \o PreOrderAll(ctrl[c].controllers, Append(chain, c))
PreOrderAll(list, chain) ==
    IF list = <<>> THEN <<>>
    ELSE PreOrder(Head(list), chain) \o PreOrderAll(Tail(list), chain)

IsPrefix(s, t) == Len(s) <= Len(t) /\ SubSeq(t, 1, Len(s)) = s

\* the controllers list the application was created with
TopList == last.arg.controllers

\* the top-level controllers whose registration was started
Started == SubSeq(TopList, 1, Len(TopList) - Len(pending))

\* C4: routes are registered in depth-first pre-order: at every moment what is
\* registered for a top-level controller is the beginning of the pre-order
\* walk (own routes in metadata order, then each nested subtree in list
\* order), and once the controller has returned it is the whole walk.
C4_DepthFirstPreOrder ==
    pc # "load" =>
        /\ IsPrefix(Registered, PreOrderAll(Started, <<>>))
        /\ stack = <<>> => Registered = PreOrderAll(Started, <<>>)

C4_Witness ==
    /\ pc = "listen"
    /\ Len(Registered) = 8
    /\ [n \in 1..8 |-> <<Registered[n].cls, Registered[n].key>>] =
         << <<"A", "m2">>, <<"A", "m1">>, <<"B", "m1">>, <<"B", "m2">>,
            <<"C", "m1">>, <<"C", "m2">>, <<"C", "m1">>, <<"C", "m2">> >>
    /\ Registered[5].chain = <<"A", "B", "C">>
    /\ Registered[7].chain = <<"A", "C">>

-----------------------------------------------------------------------------
(* SpecMw: middlewares attached to classes and to methods, and registered     *)

Fn(name) == [fn |-> name]
Fns == {Fn("f"), Fn("g")}

ClassMiddlewares(c) == IF mw[c] = NoMeta THEN <<>> ELSE mw[c].classMiddlewares
MethodMiddlewares(c, key) ==
    IF mw[c] = NoMeta THEN <<>> ELSE MapGet(mw[c].methodMiddlewares, key)

Elems(list) == {list[n] : n \in DOMAIN list}

\* the decorators of the methods of a class run before the decorators of the class
ClassDecorated(c) == ctrl[c] # NoMeta \/ ClassMiddlewares(c) # <<>>

DecorateMw ==
    \/ \E o \in {[path |-> <<"a">>, controllers |-> <<"B">>],
                  [path |-> <<"a">>, controllers |-> <<"B">>,
                   middlewares |-> <<Fn("f")>>]} :
          Controller("A", [form |-> "options", options |-> o])
    \/ Controller("B", [form |-> "string", path |-> <<"a">>])
    \/ \E c \in {"A", "B"}, ms \in Lists(Fns) \ {<<>>} :
          /\ Elems(ms) \cap Elems(ClassMiddlewares(c)) = {}
          /\ UseMiddleware(c, NoKey, ms)
    \/ \E key \in Keys, ms \in Lists(Fns) \ {<<>>} :
          /\ ~ClassDecorated("A")
          /\ Elems(ms) \cap Elems(MethodMiddlewares("A", key)) = {}
          /\ UseMiddleware("A", key, ms)
    \/ ~ClassDecorated("A") /\ ~Routed("A", "m1") /\ Get("A", "m1", Undefined)
    \/ ~ClassDecorated("A") /\ ~Routed("A", "m2") /\ Post("A", "m2", <<"a">>)
    \/ ~ClassDecorated("B") /\ ~Routed("B", "m1") /\ Get("B", "m1", Undefined)

CreateMw == ExpressPlus([controllers |-> <<"A">>, json |-> TRUE, urlencoded |-> TRUE])

NextMw == DecorateMw \/ CreateMw \/ Register

SpecMw == InitNest /\ [][NextMw]_vars

\* C5: the handler list of every registered route is the class-level
\* middlewares of its controller in their stored order, then the middlewares
\* of its method in their stored order, then the generated handler, last.
C5_ClassThenMethodThenHandler ==
    \A n \in RouteEntries :
        LET e   == app[n]
            key == routes[e.cls][e.index].propertyKey
            cm  == ClassMiddlewares(e.cls)
            mm  == MethodMiddlewares(e.cls, key)
        IN  /\ Len(e.handlers) = Len(cm) + Len(mm) + 1
            /\ SubSeq(e.handlers, 1, Len(cm)) = cm
            /\ SubSeq(e.handlers, Len(cm) + 1, Len(cm) + Len(mm)) = mm
            /\ Last(e.handlers) = Handler(e.cls, key)

C5_Witness ==
    \E n \in RouteEntries :
        /\ app[n].cls = "A"
        /\ app[n].handlers = <<Fn("f"), Fn("g"), Fn("g"), Fn("f"), Handler("A", "m2")>>
        /\ ClassMiddlewares("A") = <<Fn("f"), Fn("g")>>
        /\ MethodMiddlewares("A", "m2") = <<Fn("g"), Fn("f")>>
        /\ MethodMiddlewares("A", "m1") = <<Fn("g")>>

-----------------------------------------------------------------------------
(* SpecParams: parameter decorators applied to a method in any order, and the *)
(* arguments its handler passes                                              *)

\* the number of parameters the decorated method declares
Arity == 3

DecorateParams ==
    \/ \E index \in 0..(Arity - 1) :
          /\ ~Routed("A", "m1") /\ ~ClassDecorated("A")
          /\ \/ Param("id", "A", "m1", index)
             \/ Query("q", "A", "m1", index)
             \/ Body(NoName, "A", "m1", index)
    \/ ~Routed("A", "m1") /\ ~ClassDecorated("A") /\ Get("A", "m1", Undefined)
    \/ ~Routed("B", "m1") /\ ~ClassDecorated("B") /\ Get("B", "m1", Undefined)
    \/ Routed("A", "m1") /\ Routed("B", "m1") /\
         Controller("A", [form |-> "options",
                          options |-> [path |-> <<"a">>, controllers |-> <<"B">>]])

CreateParams ==
    ExpressPlus([controllers |-> <<"A">>, json |-> TRUE, urlencoded |-> TRUE])

NextParams ==
    \/ DecorateParams
    \/ CreateParams
    \/ Register
    \/ \E n \in DOMAIN app : call = NoCall /\ HandleRequest(n, TheRequest, Returns(Val(<<"v">>)))

SpecParams == InitNest /\ [][NextParams]_vars

\* the permutations of list
Perms(list) ==
    {[n \in DOMAIN list |-> list[f[n]]] :
        f \in {g \in [DOMAIN list -> DOMAIN list] :
                  \A x, y \in DOMAIN list : x # y => g[x] # g[y]}}

\* the parameter metadata of the method that was called
CalledParams == params[call.cls][call.key]

DistinctIndices(ps) == \A x, y \in DOMAIN ps : x # y => ps[x].index # ps[y].index

\* the values of the decorated parameters in increasing order of their
\* (distinct) indices
ByIndex(ps) ==
    [n \in 1..Len(ps) |->
        LET m == CHOOSE x \in DOMAIN ps :
                    Cardinality({y \in DOMAIN ps : ps[y].index <= ps[x].index}) = n
        IN  resolveParameter(ps[m], TheRequest)]

\* C6 as stated: whatever the order in which the parameter decorators of the
\* method were applied, the handler passes the same argument list.
C6_AsStated ==
    call # NoCall =>
        \A qs \in Perms(CalledParams) : resolveParameters(qs, TheRequest) = call.args

\* C6 amended: when no parameter carries two decorators (the indices are
\* pairwise distinct), the argument list is the resolved values in increasing
\* order of index, whatever the order in which the decorators were applied.
C6_OrderedByIndex ==
    (call # NoCall /\ DistinctIndices(CalledParams)) =>
        /\ call.args = ByIndex(CalledParams)
        /\ \A qs \in Perms(CalledParams) : resolveParameters(qs, TheRequest) = call.args

C6_Witness ==
    /\ call # NoCall
    /\ [n \in 1..Len(CalledParams) |-> CalledParams[n].index] = <<2, 0, 1>>
    /\ [n \in 1..Len(CalledParams) |-> CalledParams[n].type] = <<"body", "query", "param">>
    /\ call.args = <<Val(<<"query", "q">>), Val(<<"params", "id">>), Val(<<"body">>)>>

\* C7: the value resolved for the parameter declared at index i is passed to
\* the method as argument number i.
C7_ArgumentAtDeclaredIndex ==
    call # NoCall =>
        \A n \in DOMAIN CalledParams :
            LET p == CalledParams[n] IN
            /\ p.index + 1 <= Len(call.args)
            /\ call.args[p.index + 1] = resolveParameter(p, TheRequest)

-----------------------------------------------------------------------------
(* SpecResource: the Resource decorator on classes that implement some of the *)
(* conventional actions                                                      *)

ActionNames == {"index", "show", "create", "update", "patch", "delete"}

\* the words the segments of a resource name are taken from
Words == {<<>>, <<"a">>, <<"a", "s">>, <<"s", "s">>}

\* the resource names: up to MaxSegs words joined by dots
RECURSIVE JoinDots(_)
JoinDots(segs) ==
    IF Len(segs) = 1 THEN segs[1] ELSE segs[1] \o <<".">> \o JoinDots(Tail(segs))

SegLists == UNION {[1..k -> Words] : k \in 1..MaxSegs}

ResourceParameters == {(<<"a">> :> <<"x">>), (<<"a", "s">> :> <<>>)}

InitResource ==
    /\ InitMeta
    /\ env = "test"
    /\ superclass = NoSuperclass
    /\ \E ms \in SUBSET ActionNames : methods = [c \in Classes |-> ms \cup {"m1"}]

NextResource ==
    \/ ~ClassDecorated("A") /\ ~Routed("A", "m1") /\ Get("A", "m1", <<"a">>)
    \/ \E segs \in SegLists :
          \/ Resource("A", [form |-> "string", path |-> JoinDots(segs)])
          \/ \E ps \in ResourceParameters :
                Resource("A", [form |-> "options",
                               options |-> [path |-> JoinDots(segs), parameters |-> ps,
                                            controllers |-> <<"B">>]])
          \/ Resource("A", [form |-> "options",
                            options |-> [path |-> JoinDots(segs),
                                         middlewares |-> <<Fn("f"), Fn("g")>>]])
    \/ CreateParams
    \/ Register

SpecResource == InitResource /\ [][NextResource]_vars

\* the routes the Resource decorator added
Added == SubSeq(routes[last.cls], last.before + 1, Len(routes[last.cls]))

\* the options the Resource decorator was given
Given == IF last.arg.form = "string" THEN [path |-> last.arg.path] ELSE last.arg.options

\* the segments s1, ..., sn of the dotted name: the words it was joined from
SegsOf(name) == CHOOSE segs \in SegLists : JoinDots(segs) = name

\* /s1/:p1/s2/:p2/.../sn, built from the left
RECURSIVE CollectionPath(_, _)
CollectionPath(segs, n) ==
    IF n = 1 THEN <<"/">> \o segs[1]
    ELSE CollectionPath(segs, n - 1)
             \o <<"/", ":">> \o parameterName(Given, segs[n - 1])
             \o <<"/">> \o segs[n]

ItemPath(segs) ==
    CollectionPath(segs, Len(segs)) \o <<"/", ":">> \o parameterName(Given, segs[Len(segs)])

\* the verb and the kind of path the convention gives each action
Convention ==
    [index  |-> [method |-> "get",    item |-> FALSE],
     create |-> [method |-> "post",   item |-> FALSE],
     show   |-> [method |-> "get",    item |-> TRUE],
     update |-> [method |-> "put",    item |-> TRUE],
     patch  |-> [method |-> "patch",  item |-> TRUE],
     delete |-> [method |-> "delete", item |-> TRUE]]

\* C8: index -> GET and create -> POST on the collection path; show -> GET,
\* update -> PUT, patch -> PATCH, delete -> DELETE on the item path (the
\* collection path and the trailing placeholder); the propertyKey of each
\* generated route is the method name.
C8_ConventionalRoutes ==
    last.op = "resource" =>
        LET segs == SegsOf(Given.path) IN
        \A n \in DOMAIN Added :
            LET r == Added[n] IN
            /\ r.propertyKey \in ActionNames
            /\ r.method = Convention[r.propertyKey].method
            /\ r.path = IF Convention[r.propertyKey].item
                        THEN ItemPath(segs)
                        ELSE CollectionPath(segs, Len(segs))
            /\ Convention[r.propertyKey].item =>
                  SubSeq(r.path, 1, Len(CollectionPath(segs, Len(segs))) + 2)
                      = CollectionPath(segs, Len(segs)) \o <<"/", ":">>
            /\ ~Convention[r.propertyKey].item =>
                  SubSeq(r.path, Len(r.path) - Len(Last(segs)) + 1, Len(r.path)) = Last(segs)

C8_Witness ==
    /\ last.op = "resource"
    /\ methods["A"] = ActionNames \cup {"m1"}
    /\ Given.path = <<"a", "s">>
    /\ [n \in DOMAIN Added |-> <<Added[n].propertyKey, Added[n].method, Added[n].path>>] =
         << <<"index",  "get",    <<"/", "a", "s">> >>,
            <<"show",   "get",    <<"/", "a", "s", "/", ":", "a", "I", "d">> >>,
            <<"create", "post",   <<"/", "a", "s">> >>,
            <<"update", "put",    <<"/", "a", "s", "/", ":", "a", "I", "d">> >>,
            <<"patch",  "patch",  <<"/", "a", "s", "/", ":", "a", "I", "d">> >>,
            <<"delete", "delete", <<"/", "a", "s", "/", ":", "a", "I", "d">> >> >>

\* the segments of a path: the text between its '/'
RECURSIVE PathSegments(_)
PathSegments(path) ==
    IF \A n \in DOMAIN path : path[n] # "/"
    THEN <<path>>
    ELSE LET i == CHOOSE n \in DOMAIN path :
                     path[n] = "/" /\ \A m \in 1..(n - 1) : path[m] # "/"
         IN  <<SubSeq(path, 1, i - 1)>> \o PathSegments(SubSeq(path, i + 1, Len(path)))

IsPlaceholder(seg) == Len(seg) > 0 /\ seg[1] = ":"

\* C9: for the name s1.s2...sn the collection path is /s1/:p1/.../sn and the
\* item path is the collection path and /:pn: literals and placeholders
\* alternate, beginning with the literal s1, in the order of the name, one
\* placeholder for each segment.
C9_AlternatingSegments ==
    last.op = "resource" =>
        LET segs == SegsOf(Given.path) IN
        \A n \in DOMAIN Added :
            LET r    == Added[n]
                item == Convention[r.propertyKey].item
                ps   == Tail(PathSegments(r.path))
            IN  /\ r.path = IF item THEN ItemPath(segs) ELSE CollectionPath(segs, Len(segs))
                /\ StartsWithSlash(r.path)
                /\ Len(ps) = IF item THEN 2 * Len(segs) ELSE 2 * Len(segs) - 1
                /\ \A k \in DOMAIN ps :
                      IF k % 2 = 1
                      THEN ps[k] = segs[(k + 1) \div 2]
                      ELSE /\ IsPlaceholder(ps[k])
                           /\ ps[k] = <<":">> \o parameterName(Given, segs[k \div 2])

C9_Witness ==
    /\ last.op = "resource"
    /\ Given.path = <<"a", "s", ".", "s", "s">>
    /\ \E n \in DOMAIN Added :
          /\ Added[n].propertyKey = "index"
          /\ Added[n].path = <<"/", "a", "s", "/", ":", "a", "I", "d", "/", "s", "s">>
    /\ \E n \in DOMAIN Added :
          /\ Added[n].propertyKey = "delete"
          /\ Added[n].path = <<"/", "a", "s", "/", ":", "a", "I", "d", "/", "s", "s",
                               "/", ":", "s", "I", "d">>

\* C10: Resource adds a route for an action name exactly when the class has a
\* method of that name, one route for each; a class that implements none of
\* the six gets no generated route.
C10_OnlyImplementedActions ==
    last.op = "resource" =>
        /\ {Added[n].propertyKey : n \in DOMAIN Added} = methods[last.cls] \cap ActionNames
        /\ Len(Added) = Cardinality(methods[last.cls] \cap ActionNames)
        /\ SubSeq(routes[last.cls], 1, last.before) \in
              {<<>>, <<[method |-> "get", path |-> <<"/", "a">>, propertyKey |-> "m1"]>>}

C10_Witness ==
    /\ last.op = "resource"
    /\ methods["A"] = {"show", "create", "m1"}
    /\ last.before = 1
    /\ [n \in DOMAIN Added |-> Added[n].propertyKey] = <<"show", "create">>

\* the options name the placeholder of segment s
Customised(s) ==
    /\ "parameters" \in DOMAIN Given
    /\ s \in DOMAIN Given.parameters
    /\ Given.parameters[s] # <<>>

\* C11: the placeholder of segment s is ':' and parameters[s] when the options
\* give a (non-empty) parameter name for s, and ':' and the singular of s and
\* 'Id' otherwise; a custom name for one segment leaves the placeholder of
\* every other segment at its default.
C11_PlaceholderNames ==
    last.op = "resource" =>
        LET segs == SegsOf(Given.path) IN
        \A n \in DOMAIN Added :
            LET ps == Tail(PathSegments(Added[n].path)) IN
            \A k \in DOMAIN ps :
                k % 2 = 0 =>
                    LET s == segs[k \div 2] IN
                    ps[k] = IF Customised(s)
                            THEN <<":">> \o Given.parameters[s]
                            ELSE <<":">> \o singular(s) \o <<"I", "d">>

C11_Witness ==
    /\ last.op = "resource"
    /\ Given.path = <<"a", ".", "a", "s">>
    /\ "parameters" \in DOMAIN Given
    /\ Given.parameters = (<<"a">> :> <<"x">>)
    /\ \E n \in DOMAIN Added :
          /\ Added[n].propertyKey = "show"
          /\ Added[n].path = <<"/", "a", "/", ":", "x", "/", "a", "s", "/", ":", "a", "I", "d">>

\* C12: the middlewares given in the options of Resource are the class-level
\* middlewares of the class, so that every generated route is registered
\* with them ahead of its handler.
C12_ResourceMiddlewaresAttached ==
    (last.op = "resource" /\ "middlewares" \in DOMAIN Given) =>
        /\ ClassMiddlewares(last.cls) = Given.middlewares
        /\ \A n \in DOMAIN Added :
              getMethodMiddlewares(mw, last.cls, Added[n].propertyKey) = Given.middlewares

-----------------------------------------------------------------------------
(* SpecServe: requests served by an application of one controller, whose     *)
(* method returns, resolves, throws or rejects                               *)

Envs == {"production", "development", "test"}

\* the arguments the exceptions are constructed with
MessageArgs == {NoArg, Arg("boom"), Arg("")}

\* a method that throws new class(message)
ThrowsNew(class, message) ==
    [kind |-> "throw", error |-> New(class, message), class |-> class, message |-> message]

\* the error body-parser passes to next for a body it cannot parse
BadRequestError ==
    [instanceOf |-> {"Error"}, name |-> "BadRequestError", status |-> 400,
     message |-> "Unexpected token", stack |-> "stack"]

\* throw "boom": a thrown value that is no object
ThrownString == [instanceOf |-> {}]

Thrown ==
    {HttpException(418, "teapot"), Error("boom"), Error(""), BadRequestError, ThrownString,
     [Error("zero") EXCEPT !.name = "ZeroStatus"] @@ [status |-> 0]}

Results == {Val(<<"v">>), Val(<<"null">>), Val(<<"undefined">>)}

Outcomes ==
    {Returns(v) : v \in Results} \cup {Resolves(v) : v \in Results}
        \cup {Throws(e) : e \in Thrown} \cup {Rejects(e) : e \in Thrown}
        \cup {ThrowsNew(c, m) : c \in Canned, m \in MessageArgs}

InitServe ==
    /\ InitMeta
    /\ env \in Envs
    /\ superclass = NoSuperclass
    /\ methods = [c \in Classes |-> Keys]

\* process.env.NODE_ENV is assigned
SetEnv ==
    /\ \E e \in Envs : e # env /\ env' = e
    /\ UNCHANGED <<methods, ctrl, routes, params, mw, app, stack, pending, pc, call, last,
                   isDev, res, nextCalls,
                   superclass, container>>

NextServe ==
    \/ /\ ~Routed("A", "m1") /\ ~ClassDecorated("A") /\ params["A"]["m1"] = <<>>
       /\ Body("q", "A", "m1", 0)
    \/ ~Routed("A", "m1") /\ ~ClassDecorated("A") /\ Get("A", "m1", Undefined)
    \/ Controller("A", [form |-> "options",
                        options |-> [path |-> <<"a">>, controllers |-> <<"B">>]])
    \/ CreateParams
    \/ Register
    \/ SetEnv
    \/ \E n \in DOMAIN app : \E req \in {TheRequest, BareRequest} : \E outcome \in Outcomes :
          HandleRequest(n, req, outcome)
    \/ HandleError

SpecServe == InitServe /\ [][NextServe]_vars

\* the error handler answered the error passed to next
Answered == pc = "listen" /\ nextCalls # <<>> /\ res.status # <<>>

\* the error that was answered and the JSON body of the answer
TheError == nextCalls[1]
TheBody == res.json[1]

\* C13 as stated: an HttpException is answered with its own status; every
\* other thrown value with status 500 and the thrown message.
C13_AsStated ==
    Answered =>
        /\ Len(res.status) = 1 /\ Len(res.json) = 1
        /\ TheBody.statusCode = res.status[1]
        /\ IF IsHttpException(TheError)
           THEN res.status[1] = TheError.status
           ELSE /\ res.status[1] = 500
                /\ "message" \in DOMAIN TheError => TheBody.message = TheError.message

\* C13: an HttpException is answered with its own status and message; every
\* other thrown value with its status property when it has a non-zero one and
\* 500 otherwise, and with its message when it has a non-empty one and
\* 'Internal Server Error' otherwise; the statusCode of the body is the HTTP
\* status sent.
C13_StatusOfTheError ==
    Answered =>
        /\ Len(res.status) = 1 /\ Len(res.json) = 1
        /\ TheBody.statusCode = res.status[1]
        /\ IF IsHttpException(TheError)
           THEN /\ res.status[1] = TheError.status
                /\ TheBody.message = TheError.message
           ELSE /\ res.status[1] = IF "status" \in DOMAIN TheError /\ TheError.status # 0
                                   THEN TheError.status ELSE 500
                /\ TheBody.message = IF "message" \in DOMAIN TheError /\ TheError.message # ""
                                     THEN TheError.message ELSE "Internal Server Error"

C13_Witness ==
    /\ Answered
    /\ TheError = BadRequestError
    /\ res.status = <<400>>
    /\ TheBody.statusCode = 400
    /\ TheBody.message = "Unexpected token"

Documented ==
    [BadRequestException          |-> [status |-> 400, message |-> "Bad Request"],
     UnauthorizedException        |-> [status |-> 401, message |-> "Unauthorized"],
     ForbiddenException           |-> [status |-> 403, message |-> "Forbidden"],
     NotFoundException            |-> [status |-> 404, message |-> "Not Found"],
     ConflictException            |-> [status |-> 409, message |-> "Conflict"],
     InternalServerErrorException |-> [status |-> 500, message |-> "Internal Server Error"]]

\* the method called last threw a new exception of one of the six classes
ThrewNew == call # NoCall /\ call.invoked /\ "class" \in DOMAIN call.outcome

\* C15: an exception of one of the six classes constructed with no argument
\* has the documented status and default message; constructed with a
\* message it has the same status and that message; its name is the name of
\* its class.
C15_CannedExceptions ==
    ThrewNew =>
        LET e == call.outcome.error
            c == call.outcome.class
            m == call.outcome.message
        IN  /\ e.status = Documented[c].status
            /\ e.message = IF m.given THEN m.value ELSE Documented[c].message
            /\ e.name = c
            /\ IsHttpException(e)
            /\ nextCalls = <<e>>

C15_Witness ==
    /\ ThrewNew
    /\ call.outcome.class = "ConflictException"
    /\ call.outcome.message = NoArg
    /\ call.outcome.error.status = 409
    /\ call.outcome.error.message = "Conflict"
    /\ call.outcome.error.name = "ConflictException"

\* the handler ran and the error handler did not yet
Handled == pc = "listen" /\ call # NoCall /\ res.status = <<>>

\* C16: a result that is not undefined is sent with res.json exactly once;
\* with an undefined result neither res.json nor next is called; when the
\* resolution of the parameters or the method throws or rejects, next is
\* called once with the error and res.json is not called.
C16_JsonOrNext ==
    Handled =>
        IF call.invoked /\ Fulfils(call.outcome)
        THEN IF call.outcome.value # Val(<<"undefined">>)
             THEN res.json = <<call.outcome.value>> /\ nextCalls = <<>>
             ELSE res.json = <<>> /\ nextCalls = <<>>
        ELSE /\ res.json = <<>>
             /\ Len(nextCalls) = 1
             /\ call.invoked => nextCalls[1] = call.outcome.error
             /\ ~call.invoked => nextCalls[1].name = "TypeError"

C16_Witness ==
    /\ Handled
    /\ ~call.invoked
    /\ call.req = BareRequest
    /\ res.json = <<>>
    /\ Len(nextCalls) = 1 /\ nextCalls[1].name = "TypeError"

-----------------------------------------------------------------------------
(* SpecResolve: up to two parameters of one method, decorated with every     *)
(* kind of parameter decorator, and requests with and without the values     *)

ParamNames == Names \cup {NoName}

\* parameter number index of A.m1 can still be decorated
Undecorated(index) ==
    /\ ~Routed("A", "m1") /\ ~ClassDecorated("A")
    /\ \A k \in DOMAIN params["A"]["m1"] : params["A"]["m1"][k].index # index

NextResolve ==
    \/ \E index \in {0, 1} : \E name \in ParamNames :
          /\ Undecorated(index)
          /\ \/ Param(name, "A", "m1", index)
             \/ Query(name, "A", "m1", index)
             \/ Body(name, "A", "m1", index)
             \/ Headers(name, "A", "m1", index)
    \/ \E index \in {0, 1} :
          /\ Undecorated(index)
          /\ \/ Req("A", "m1", index)
             \/ Res("A", "m1", index)
             \/ CustomParam("A", "m1", index)
    \/ ~Routed("A", "m1") /\ ~ClassDecorated("A") /\ Get("A", "m1", Undefined)
    \/ Controller("A", [form |-> "options",
                        options |-> [path |-> <<"a">>, controllers |-> <<"B">>]])
    \/ CreateParams
    \/ Register
    \/ \E n \in DOMAIN app : \E req \in {TheRequest, BareRequest} :
          HandleRequest(n, req, Returns(Val(<<"v">>)))

SpecResolve == InitNest /\ [][NextResolve]_vars

\* the place in the argument list of parameter p: one more than the number
\* of decorated parameters of smaller index
Place(ps, p) == Cardinality({y \in DOMAIN ps : ps[y].index <= p.index})

\* C17: a parameter of kind param resolves to req.params[name], query to
\* req.query[name], headers to the header of that name, req to the request,
\* res to the response, body to the whole body when no name is given and to
\* req.body[name] otherwise, and every other kind to undefined.
C17_ResolvedByKind ==
    (call # NoCall /\ call.invoked /\ DistinctIndices(CalledParams)) =>
        \A n \in DOMAIN CalledParams :
            LET p   == CalledParams[n]
                req == call.req
                arg == call.args[Place(CalledParams, p)]
            IN  CASE p.type = "param"   -> arg = Prop(req.params, p.name)
                  [] p.type = "query"   -> arg = Prop(req.query, p.name)
                  [] p.type = "headers" -> arg = Prop(req.headers, p.name)
                  [] p.type = "req"     -> arg = Val(<<"req">>)
                  [] p.type = "res"     -> arg = Val(<<"res">>)
                  [] p.type = "body"    -> IF p.name = NoName
                                           THEN arg = req.body.self
                                           ELSE arg = Prop(req.body.props, p.name)
                  [] OTHER              -> arg = Val(<<"undefined">>)

C17_Witness ==
    /\ call # NoCall /\ call.invoked
    /\ call.req = TheRequest
    /\ [n \in 1..Len(CalledParams) |-> CalledParams[n].type] = <<"body", "param">>
    /\ [n \in 1..Len(CalledParams) |-> CalledParams[n].name] = <<"q", "id">>
    /\ [n \in 1..Len(CalledParams) |-> CalledParams[n].index] = <<1, 0>>
    /\ call.args = <<Val(<<"params", "id">>), Val(<<"body", "q">>)>>

-----------------------------------------------------------------------------
(* Accumulation of the route metadata, under SpecRoute: every step is one    *)
(* call of addRouteMetadata by an HTTP-verb decorator                        *)

\* the call of addRouteMetadata(c, route) of the step appends route for c
\* and keeps what was stored
Accumulates(c) ==
    /\ Len(routes'[c]) = Len(routes[c]) + 1
    /\ SubSeq(routes'[c], 1, Len(routes[c])) = routes[c]
    /\ Last(routes'[c]).method = last'.method
    /\ Last(routes'[c]).propertyKey = last'.key
    /\ \A d \in Classes \ {c} : routes'[d] = routes[d]

\* C18: every call of addRouteMetadata for a class puts its route at the end
\* of the list of the class and leaves the routes stored before in place, so
\* that after n calls the list holds the n routes in the order of the calls.
C18_RoutesAccumulate == [][last'.op = "route" /\ Accumulates(last'.cls)]_vars

C18_Witness ==
    /\ last.op = "route" /\ last.method = "post"
    /\ [n \in DOMAIN routes["A"] |-> <<routes["A"][n].method, routes["A"][n].path>>] =
           << <<"get", <<"/", "a">> >>, <<"post", <<>> >> >>

-----------------------------------------------------------------------------
(* SpecCtrl: the Controller decorator with no argument, a string and an      *)
(* options object, with and without nested controllers                       *)

Prefixes == Str({"/", "a"}, MaxPathLen)

NestedLists == {<<>>, <<"C">>, <<"C", "B">>}

NextCtrl ==
    \E c \in {"A", "B"} :
        \/ Controller(c, [form |-> "none"])
        \/ \E prefix \in Prefixes : Controller(c, [form |-> "string", path |-> prefix])
        \/ \E prefix \in Prefixes :
              Controller(c, [form |-> "options", options |-> [path |-> prefix]])
        \/ \E prefix \in Prefixes : \E l \in NestedLists :
              Controller(c, [form |-> "options",
                             options |-> [path |-> prefix, controllers |-> l]])

SpecCtrl == InitNest /\ [][NextCtrl]_vars

\* the prefix the last Controller decorator was given: "" when it was left out
GivenPrefix ==
    IF last.arg.form = "none" THEN <<>>
    ELSE IF last.arg.form = "string" THEN last.arg.path
    ELSE last.arg.options.path

\* C19: Controller stores the prefix with a '/' put in front when it is not
\* empty and does not begin with '/', and as given otherwise (the empty
\* string for an empty or omitted prefix), in the string form and in the
\* options form alike; the nested controllers stored are the list given, or
\* the empty list when none was given.
C19_StoredPrefixAndNested ==
    last.op = "controller" =>
        LET stored == ctrl[last.cls] IN
        /\ stored # NoMeta
        /\ (GivenPrefix # <<>> /\ Head(GivenPrefix) # "/") =>
               stored.prefix = <<"/">> \o GivenPrefix
        /\ (GivenPrefix = <<>> \/ Head(GivenPrefix) = "/") => stored.prefix = GivenPrefix
        /\ stored.controllers =
               IF last.arg.form = "options" /\ "controllers" \in DOMAIN last.arg.options
               THEN last.arg.options.controllers
               ELSE <<>>

C19_Witness ==
    /\ last.op = "controller" /\ last.cls = "A"
    /\ last.arg.form = "options"
    /\ last.arg.options = [path |-> <<"a">>, controllers |-> <<"C", "B">>]
    /\ ctrl["A"] = [prefix |-> <<"/", "a">>, controllers |-> <<"C", "B">>]
    /\ ctrl["B"] = [prefix |-> <<>>, controllers |-> <<>>]

-----------------------------------------------------------------------------
(* The lists UseMiddleware writes, under SpecMw *)

\* the class-level list and the list of method key of class c in the
\* middleware metadata m
ClassList(m, c) == IF m[c] = NoMeta THEN <<>> ELSE m[c].classMiddlewares
MethodList(m, c, key) == IF m[c] = NoMeta THEN <<>> ELSE MapGet(m[c].methodMiddlewares, key)

\* the step is the UseMiddleware call that last records
UseMiddlewareStep == last'.op = "middleware" /\ mw' # mw

\* C20: UseMiddleware(m1, ..., mk) on a class puts m1, ..., mk in this order
\* at the end of the class-level list of the class; on a method it puts them
\* at the end of the list of that method and leaves the class-level list and
\* the lists of the other methods as they were.
C20_MiddlewaresAppended ==
    [][UseMiddlewareStep =>
          LET c   == last'.cls
              key == last'.key
              ms  == last'.arg
          IN  /\ \A other \in Classes \ {c} :
                    /\ ClassList(mw', other) = ClassList(mw, other)
                    /\ \A k \in Keys : MethodList(mw', other, k) = MethodList(mw, other, k)
              /\ IF key = NoKey
                 THEN /\ ClassList(mw', c) = ClassList(mw, c) \o ms
                      /\ \A k \in Keys : MethodList(mw', c, k) = MethodList(mw, c, k)
                 ELSE /\ MethodList(mw', c, key) = MethodList(mw, c, key) \o ms
                      /\ ClassList(mw', c) = ClassList(mw, c)
                      /\ \A k \in Keys \ {key} :
                            MethodList(mw', c, k) = MethodList(mw, c, k)]_vars

C20_Witness ==
    /\ last.op = "middleware" /\ last.cls = "A" /\ last.key = "m1"
    /\ last.arg = <<Fn("g")>>
    /\ MethodList(mw, "A", "m1") = <<Fn("f"), Fn("g")>>
    /\ MethodList(mw, "A", "m2") = <<Fn("g"), Fn("f")>>
    /\ ClassList(mw, "A") = <<>>

-----------------------------------------------------------------------------
(* SpecInstance: controllers with several routes that are reached several    *)
(* times during registration, and requests after it                          *)

TopLists == {<<"A", "B", "A">>, <<"B">>}

NextInstance ==
    \/ ~ClassDecorated("A") /\ ~Routed("A", "m1") /\ Get("A", "m1", Undefined)
    \/ ~ClassDecorated("A") /\ ~Routed("A", "m2") /\ Post("A", "m2", <<"a">>)
    \/ ~ClassDecorated("B") /\ ~Routed("B", "m1") /\ Get("B", "m1", Undefined)
    \/ Controller("A", [form |-> "options",
                        options |-> [path |-> <<"a">>, controllers |-> <<"B">>]])
    \/ Controller("B", [form |-> "string", path |-> <<"a">>])
    \/ \E l \in TopLists :
          ExpressPlus([controllers |-> l, json |-> TRUE, urlencoded |-> TRUE])
    \/ Register
    \/ \E n \in DOMAIN app : HandleRequest(n, TheRequest, Returns(Val(<<"v">>)))

SpecInstance == InitNest /\ [][NextInstance]_vars

\* C21: the container constructs at most one instance of a controller class
\* and every route of the class is bound to that instance, however many
\* routes the class has and however often registration reaches it; serving
\* requests constructs none.
C21_OneInstance ==
    /\ \A c \in Classes : container[c] <= 1
    /\ \A n \in RouteEntries : app[n].instance = 1 /\ container[app[n].cls] = 1
    /\ \A n, m \in RouteEntries :
          app[n].cls = app[m].cls => app[n].instance = app[m].instance

C21_Witness ==
    /\ pc = "listen" /\ call # NoCall
    /\ last.arg.controllers = <<"A", "B", "A">>
    /\ Cardinality({n \in RouteEntries : app[n].cls = "A"}) = 4
    /\ Cardinality({n \in RouteEntries : app[n].cls = "B"}) = 3
    /\ \A n \in RouteEntries : app[n].instance = 1
    /\ container = [c \in Classes |-> IF c = "C" THEN 0 ELSE 1]

-----------------------------------------------------------------------------
(* SpecInherit: metadata added to a class A and to a class B that may        *)
(* extend A; nothing is ever added to class C, which may extend B            *)

Hierarchies ==
    {NoSuperclass,
     [c \in Classes |-> IF c = "C" THEN "B" ELSE NoClass],
     [c \in Classes |-> IF c = "B" THEN "A" ELSE IF c = "C" THEN "B" ELSE NoClass]}

InitInherit ==
    /\ InitMeta
    /\ env = "test"
    /\ superclass \in Hierarchies
    /\ methods = [c \in Classes |-> Keys]

\* no route of the class is on the method yet
RouteFree(c, key) ==
    \A n \in DOMAIN getRouteMetadata(c) : getRouteMetadata(c)[n].propertyKey # key

\* the method of the class has no parameter of the kind yet
KindFree(c, key, type) ==
    \A n \in DOMAIN getParameterMetadata(c, key) : getParameterMetadata(c, key)[n].type # type

\* the middleware does not yet run before the method of the class
MiddlewareFree(c, key, middleware) ==
    middleware \notin Elems(getMethodMiddlewares(mw, c, key))

NextInherit ==
    \/ RouteFree("A", "m1") /\ Get("A", "m1", <<"a">>)
    \/ RouteFree("B", "m2") /\ Post("B", "m2", Undefined)
    \/ KindFree("A", "m1", "param") /\ Param("id", "A", "m1", 0)
    \/ KindFree("B", "m1", "query") /\ Query("q", "B", "m1", 1)
    \/ MiddlewareFree("A", "m1", Fn("f")) /\ UseMiddleware("A", NoKey, <<Fn("f")>>)
    \/ MiddlewareFree("B", "m1", Fn("g")) /\ UseMiddleware("B", "m1", <<Fn("g")>>)
    \/ Controller("A", [form |-> "string", path |-> <<"a">>])
    \/ \E index \in {0, 1} : Body(NoName, "A", NoKey, index)

SpecInherit == InitInherit /\ [][NextInherit]_vars

\* the getters find nothing on class c
NothingOn(c) ==
    /\ getControllerMetadata(c) = NoMeta
    /\ getRouteMetadata(c) = <<>>
    /\ \A k \in PropertyKeys :
          /\ getParameterMetadata(c, k) = <<>>
          /\ getMethodMiddlewares(mw, c, k) = <<>>

\* the prototype of class d has metadata of its own
Carries(d) ==
    \/ ctrl[d] # NoMeta
    \/ routes[d] # <<>>
    \/ \E k \in StorageKeys : params[d][k] # <<>>
    \/ mw[d] # NoMeta

\* the classes c extends, directly or not
Ancestors(c) == {PrototypeChain(c)[n] : n \in DOMAIN PrototypeChain(c)} \ {c}

\* C22 as stated: on class C, to which no metadata is ever added,
\* getControllerMetadata returns undefined and getRouteMetadata,
\* getParameterMetadata and getMethodMiddlewares return empty lists.
C22_AsStated == NothingOn("C")

\* C22: on class C, to which no metadata is ever added, the getters return
\* undefined and empty lists as long as no class that C extends carries
\* metadata.
C22_NothingUnlessInherited ==
    (\A d \in Ancestors("C") : ~Carries(d)) => NothingOn("C")

C22_Witness ==
    /\ superclass["C"] = "B" /\ superclass["B"] = NoClass
    /\ ~Carries("B")
    /\ ctrl["A"] # NoMeta /\ Len(routes["A"]) = 1 /\ mw["A"] # NoMeta
    /\ params["A"]["m1"] # <<>>
    /\ NothingOn("C")

\* the step adds a route, a parameter binding or a middleware to a class
AddsMetadata == last'.op \in {"route", "parameter", "middleware"}

\* C25: adding a route, a parameter binding or a middleware to a class B
\* does not change what getRouteMetadata, getParameterMetadata and
\* getMethodMiddlewares (the class-level and method-level lists of
\* getMiddlewareMetadata) return for another class A, also when B extends A
\* and A already carries metadata. (A ranges over the classes that do not
\* extend B: what a subclass inherits is left aside.)
C25_Isolated ==
    [][AddsMetadata =>
          \A a \in Classes \ {last'.cls} :
              last'.cls \notin Ancestors(a) =>
              /\ getRouteMetadata(a)' = getRouteMetadata(a)
              /\ \A k \in Keys :
                    /\ getParameterMetadata(a, k)' = getParameterMetadata(a, k)
                    /\ getMethodMiddlewares(mw', a, k) = getMethodMiddlewares(mw, a, k)]_vars

\* the step applies a parameter decorator where there is no method key
DecoratesNoMethod == last'.op = "parameter" /\ last'.key = NoKey

\* C23: a parameter decorator applied where there is no method key throws,
\* and the parameter metadata of every class stays as it was.
C23_ThrowsAndStoresNothing ==
    [][DecoratesNoMethod => last'.threw /\ params' = params]_vars

C23_Witness ==
    /\ last.op = "parameter" /\ last.key = NoKey /\ last.threw
    /\ Len(params["A"]["m1"]) = 1
    /\ \A c \in Classes : params[c][String(NoKey)] = <<>>

-----------------------------------------------------------------------------
(* SpecKeys: parameters decorated on methods of one class whose keys are     *)
(* strings and symbols                                                       *)

\* the kind of parameter each method declares, a different one for each
KindOf ==
    [k \in PropertyKeys |->
        CASE k = "m1" -> "param"
          [] k = "m2" -> "query"
          [] k = "symbol 1" -> "body"
          [] k = "symbol 2" -> "headers"
          [] OTHER -> "req"]

NextKeys ==
    \E k \in PropertyKeys :
        /\ KindFree("A", k, KindOf[k])
        /\ createParameterDecorator(KindOf[k], NoName, "A", k, 0)

SpecKeys == InitNest /\ [][NextKeys]_vars

\* C26: for distinct method keys k1 and k2 of a class, strings or symbols,
\* adding parameter metadata under k1 leaves the result of
\* getParameterMetadata under k2 as it was: two symbols of the same
\* description, and a symbol and the string that spells it, keep separate
\* lists.
C26_KeysSeparate ==
    [][last'.op = "parameter" =>
          \A c \in Classes, k2 \in PropertyKeys :
              (c = last'.cls /\ k2 # last'.key) =>
                  getParameterMetadata(c, k2)' = getParameterMetadata(c, k2)]_vars

-----------------------------------------------------------------------------
(* SpecCycle: controllers whose nested-controller lists form a cycle         *)

DecorateCycle ==
    \/ \E l \in {<<"A">>, <<"B">>, <<"B", "A">>} :
          Controller("A", [form |-> "options",
                           options |-> [path |-> <<"a">>, controllers |-> l]])
    \/ \E l \in {<<>>, <<"A">>, <<"C">>} :
          Controller("B", [form |-> "options",
                           options |-> [path |-> <<"b">>, controllers |-> l]])
    \/ Controller("C", [form |-> "string", path |-> <<"c">>])
    \/ \E c \in {"A", "C"} : ~Routed(c, "m1") /\ Get(c, "m1", Undefined)

CreateCycle ==
    ExpressPlus([controllers |-> <<"A">>, json |-> TRUE, urlencoded |-> TRUE])

\* the number of nested calls of registerController the call stack holds
MaxDepth == 3

\* a recursive call the call stack has room for
RegisterChildWithinStack == RegisterChild /\ Len(stack') <= MaxDepth

\* a recursive call the call stack has no room for: RangeError, Maximum call
\* stack size exceeded, thrown out of every call and of the constructor
Overflow ==
    /\ pc = "register" /\ stack # <<>>
    /\ LET f == Head(stack)
           children == getControllerMetadata(f.cls).controllers
       IN  /\ f.i > Len(getRouteMetadata(f.cls))
           /\ f.j <= Len(children)
           /\ getControllerMetadata(children[f.j]) # NoMeta
    /\ Len(stack) >= MaxDepth
    /\ pc' = "crashed"
    /\ stack' = <<>>
    /\ UNCHANGED <<methods, ctrl, routes, params, mw, app, pending, call, last, env, isDev, res,
                   nextCalls, superclass, container>>

NextCycle ==
    \/ DecorateCycle
    \/ CreateCycle
    \/ RegisterNext
    \/ RegisterRoute
    \/ RegisterChildWithinStack
    \/ Return
    \/ UseErrorHandler
    \/ Overflow

\* the constructor runs to its end or to an exception without being suspended
SpecCycle == InitNest /\ [][NextCycle]_vars /\ WF_vars(NextCycle)

\* C24: the registration of the controllers, once begun, comes to its end,
\* whatever the nested-controller lists are, a controller that names itself or
\* one of its ancestors included.
C24_RegistrationEnds == (pc = "register") ~> (pc = "listen")

-----------------------------------------------------------------------------
(* SpecMw: the middlewares of a route are those of its own class and method   *)

\* the middlewares in the handler list of entry n of the app: all but the last
MiddlewarePart(n) == SubSeq(app[n].handlers, 1, Len(app[n].handlers) - 1)

\* C27: the middleware part of the handler list of a route of controller C
\* and method m holds the class-level middlewares of C and the middlewares of
\* m and nothing else: no middleware of a parent or of a nested controller,
\* none of another method of C.
C27_OnlyItsOwnMiddlewares ==
    \A n \in RouteEntries :
        LET c   == app[n].cls
            key == routes[c][app[n].index].propertyKey
            own == Elems(ClassList(mw, c)) \cup Elems(MethodList(mw, c, key))
        IN  /\ Elems(MiddlewarePart(n)) = own
            /\ Len(MiddlewarePart(n)) = Len(ClassList(mw, c)) + Len(MethodList(mw, c, key))
            /\ \A d \in Classes \ {c} : \A fn \in Elems(ClassList(mw, d)) \ own :
                   fn \notin Elems(MiddlewarePart(n))
            /\ \A k \in Keys \ {key} : \A fn \in Elems(MethodList(mw, c, k)) \ own :
                   fn \notin Elems(MiddlewarePart(n))

C27_Witness ==
    /\ pc = "listen"
    /\ ClassList(mw, "A") = <<Fn("f")>>
    /\ MethodList(mw, "A", "m1") = <<>>
    /\ MethodList(mw, "A", "m2") = <<Fn("g")>>
    /\ ClassList(mw, "B") = <<Fn("g")>>
    /\ \E n \in RouteEntries :
          /\ app[n].cls = "A" /\ routes["A"][app[n].index].propertyKey = "m1"
          /\ app[n].handlers = <<Fn("f"), Handler("A", "m1")>>
    /\ \E n \in RouteEntries :
          /\ app[n].chain = <<"A", "B">>
          /\ app[n].handlers = <<Fn("g"), Handler("B", "m1")>>

-----------------------------------------------------------------------------
(* SpecApp: the order of the body parsers, the routes and the error handler   *)

\* json and urlencoded: left out, true or false
ParserOptions ==
    {[controllers |-> l] : l \in {<<"A">>, <<"B", "A">>}}
    \cup {[controllers |-> <<"A">>, json |-> j, urlencoded |-> u] : j, u \in BOOLEAN}

DecorateApp ==
    \/ \E l \in {<<>>, <<"B">>} :
          Controller("A", [form |-> "options",
                           options |-> [path |-> <<"a">>, controllers |-> l]])
    \/ Controller("B", [form |-> "string", path |-> <<"b">>])
    \/ \E c \in {"A", "B"} : ~ClassDecorated(c) /\ ~Routed(c, "m1") /\ Get(c, "m1", Undefined)
    \/ ~ClassDecorated("A") /\ ~Routed("A", "m2") /\ Post("A", "m2", <<"a">>)

CreateApp == \E options \in ParserOptions : ExpressPlus(options)

NextApp == DecorateApp \/ CreateApp \/ Register

SpecApp == InitNest /\ [][NextApp]_vars

\* the places on the app of the body parsers and of the error handler
Parsers == {n \in DOMAIN app : app[n].kind = "use" /\ app[n].fn \in {"json", "urlencoded"}}
ErrorHandlers == {n \in DOMAIN app : app[n].kind = "use" /\ app[n].fn = "errorHandler"}

\* the body parsers the options enable, json first
EnabledParsers ==
    (IF NotFalse(last.arg, "json") THEN <<"json">> ELSE <<>>)
    \o (IF NotFalse(last.arg, "urlencoded") THEN <<"urlencoded">> ELSE <<>>)

\* C28: the body parsers that are enabled are on the app before the first
\* route, and the error handler is put on the app once, after every route of
\* every controller of the list has been registered: for every route the
\* order is body parsers, the route, the error handler.
C28_ParsersRoutesErrorHandler ==
    pc # "load" =>
        /\ Parsers = 1..Len(EnabledParsers)
        /\ \A n \in Parsers : app[n].fn = EnabledParsers[n]
        /\ \A n \in RouteEntries :
              /\ \A m \in Parsers : m < n
              /\ \A m \in ErrorHandlers : n < m
        /\ ErrorHandlers # {} =>
              /\ ErrorHandlers = {Len(app)}
              /\ stack = <<>> /\ pending = <<>>
              /\ Registered = PreOrderAll(TopList, <<>>)
        /\ pc = "listen" => ErrorHandlers # {}

C28_Witness ==
    /\ pc = "listen"
    /\ "json" \in DOMAIN last.arg /\ ~last.arg.json /\ last.arg.urlencoded
    /\ Parsers = {1}
    /\ RouteEntries = {2, 3, 4}
    /\ app[4].chain = <<"A", "B">>
    /\ ErrorHandlers = {5}

====
